---- MODULE Spec2Model ----
(***************************************************************************)
(* Model of the session authority of the server (src/src/server.rs):       *)
(* ServerState, decode_packet, process_request_action and the event loop   *)
(* of main, which folds tick events and inbound datagrams over one         *)
(* ServerState.                                                            *)
(*                                                                         *)
(* Encodings.  Option<T> is a sequence of length 0 (None) or 1 (Some).     *)
(* A String is the sequence of its Unicode code points; String::len() is   *)
(* the length of its UTF-8 encoding in bytes.  A Vec is a sequence; Vec    *)
(* index i of the code is index i+1 here.  new_cookie() draws 16 random    *)
(* bytes: its result is an arbitrary element of Cookies.                   *)
(*                                                                         *)
(* The outbound channel of main (chan) and the socket side of its send     *)
(* path (wire) are followed by the specification SpecSend; the other       *)
(* specifications of the server observe the item handed to the channel in  *)
(* last.sent.  The transport layer, of which the repository holds the      *)
(* interface only (netwaystev2/src/transport/interface.rs), is modelled    *)
(* from its specified contract in the variable transport and followed by   *)
(* SpecTransport.                                                          *)
(*                                                                         *)
(* The game client (src/src/client.rs) is a separate program: its          *)
(* MainState is the variable client, its callbacks are followed by         *)
(* SpecClient.  Time is counted in whole seconds.  The Universe belongs to *)
(* the conway crate: of it the model keeps the generation counter and the  *)
(* cells at the probed coordinates.                                        *)
(***************************************************************************)
EXTENDS Integers, Sequences, FiniteSets, TLC

VARIABLES server_state, alive, last, issued, chan, wire, transport, client

vars == <<server_state, alive, last, issued, chan, wire, transport, client>>

\* the state of the session authority and of its event loop
server_vars == <<server_state, alive, last, issued>>

(* ------------------------------ bounds --------------------------------- *)

\* most numbered responses the model lets the server issue to its players
\* (every Connect that succeeds and every dispatched request takes one)
MaxResponses == 3
\* the same, for the runs with a single client
MaxClientResponses == 4
\* most tick events the model handles
MaxTick == 1
\* numbered responses issued in the runs that exercise the pairing policy
MaxPairResponses == 4
\* calls of initiate_player_session that pair two players
MaxPairings == 1
\* numbered responses issued in the runs with long player names
MaxSizeResponses == 3
\* most ticks an endpoint stays idle in the runs of the transport layer
MaxIdle == 2
\* numbered responses issued, and items handed to the outbound channel, in
\* the runs that follow the channel
MaxChannelResponses == 3
MaxSent == 3
\* most generations the universe of the client reaches
MaxGen == 3

(* --------------------------- program constants ------------------------- *)

MAX_GAME_SLOT_NAME == 16

\* the single-datagram ceiling
UDP_MTU_SIZE == 1472

\* seconds the client shows the intro
INTRO_DURATION == 2

(* ------------------------------ strings -------------------------------- *)

\* bytes of the UTF-8 encoding of one code point
Utf8Len(c) == IF c < 128 THEN 1 ELSE IF c < 2048 THEN 2 ELSE IF c < 65536 THEN 3 ELSE 4

\* bytes of the code points lo..hi of s, summed by halves
RECURSIVE StrLenBetween(_, _, _)
StrLenBetween(s, lo, hi) ==
    IF lo > hi THEN 0
    ELSE IF lo = hi THEN Utf8Len(s[lo])
    ELSE LET mid == (lo + hi) \div 2
         IN  StrLenBetween(s, lo, mid) + StrLenBetween(s, mid + 1, hi)

\* String::len(): the length in bytes
StrLen(s) == StrLenBetween(s, 1, Len(s))

(* ------------------------------ inputs --------------------------------- *)

\* the values new_cookie() returns in the model
Cookies == {1, 2}

\* a cookie no new_cookie() call of the model returns (a forged cookie)
ForgedCookie == 0

\* source addresses of the datagrams
Addrs == {"10.0.0.1:5000"}

\* "a", "b"
PlayerNames == {<<97>>, <<98>>}

\* 16 ASCII characters (16 bytes)
Name16 == [i \in 1..16 |-> 97]
\* 17 ASCII characters (17 bytes)
Name17 == [i \in 1..17 |-> 97]
\* 16 characters, the first one U+00E9 (17 bytes)
NameU16 == [i \in 1..16 |-> IF i = 1 THEN 233 ELSE 97]

SlotNames == {<<103>>, Name16, Name17, NameU16}

\* "h", "i"
ChatTexts == {<<104>>, <<105>>}

\* RequestAction: tag and its string payload (the empty string when it has none)
Act(tag, arg) == [tag |-> tag, arg |-> arg]

RequestActions ==
    {Act("Connect", n) : n \in PlayerNames}
    \cup {Act(t, <<>>) : t \in {"Disconnect", "KeepAlive", "ListPlayers",
                                "ListGameSlots", "LeaveGameSlot", "None"}}
    \cup {Act("ChatMessage", m) : m \in ChatTexts}
    \cup {Act("NewGameSlot", n) : n \in SlotNames}
    \cup {Act("JoinGameSlot", n) : n \in SlotNames}

OptCookies == {<<>>} \cup {<<c>> : c \in Cookies \cup {ForgedCookie}}

\* values of the sequence field of a Request (decode_packet reads neither it
\* nor response_ack)
SeqNums == {0}

\* Packet: the variant and, for a Request, its fields
Pkt(kind, sequence, response_ack, cookie, action) ==
    [kind |-> kind, sequence |-> sequence, response_ack |-> response_ack,
     cookie |-> cookie, action |-> action]

Packets ==
    {Pkt("Request", s, 0, c, a) : s \in SeqNums, c \in OptCookies, a \in RequestActions}
    \cup {Pkt(k, 0, 0, <<>>, Act("None", <<>>)) : k \in {"Response", "Update", "UpdateReply"}}

(* ------------------------------ records -------------------------------- *)

\* GameSlot::new, game_slot_id being the value new_cookie() returned
GameSlotNew(name, player_ids, slot_id) ==
    [game_slot_id     |-> slot_id,
     name             |-> name,
     player_ids       |-> player_ids,
     game_running     |-> FALSE,
     universe         |-> 0,
     pending_messages |-> <<>>]

\* NewPlayerRecord that stores no source address
NewPlayerRecord_Unbound(st, name, addr, cookie) ==
    [player_id     |-> st.next_player_id,
     cookie        |-> cookie,
     addr          |-> "",
     player_name   |-> name,
     request_ack   |-> <<>>,
     next_resp_seq |-> 0,
     game_info     |-> <<>>]

\* the Player that ServerState::new_player returns, cookie being the value
\* new_cookie() returned
NewPlayerRecord(st, name, addr, cookie) ==
    [player_id     |-> st.next_player_id,
     cookie        |-> cookie,
     addr          |-> addr,
     player_name   |-> name,
     request_ack   |-> <<>>,
     next_resp_seq |-> 0,
     game_info     |-> <<>>]

\* NewPlayerState that leaves next_player_id as it is
NewPlayerState_Stuck(st) == st

\* ServerState::new_player: the state after it (next_player_id advanced)
NewPlayerState(st) == [st EXCEPT !.next_player_id = st.next_player_id + 1]

\* ServerState::new
ServerStateNew ==
    [tick           |-> 0,
     ctr            |-> 0,
     players        |-> <<>>,
     player_map     |-> {},
     game_slots     |-> <<>>,
     next_player_id |-> 0]

\* ResponseCode
Code(tag, payload) == [tag |-> tag, payload |-> payload]

\* Packet::Response
Response(sequence, code) == [sequence |-> sequence, request_ack |-> <<>>, code |-> code]

(* --------------------------- HashMap player_map ------------------------ *)

\* player_map is the set of its entries <<cookie, player id>>, at most one per key
MapKeys(m) == {e[1] : e \in m}

MapGet(m, k) == IF k \in MapKeys(m) THEN <<(CHOOSE e \in m : e[1] = k)[2]>> ELSE <<>>

\* HashMap::insert: a present key has its value replaced
MapInsert(m, k, v) == {e \in m : e[1] # k} \cup {<<k, v>>}

(* ------------------------ process_request_action ----------------------- *)

\* the least index at which the sequence of booleans holds TRUE, 0 when there
\* is none (Iterator::find, and a for loop left at its first match)
FirstIndex(hits) ==
    IF \E i \in 1..Len(hits) : hits[i]
    THEN CHOOSE i \in 1..Len(hits) : hits[i] /\ \A j \in 1..(i - 1) : ~hits[j]
    ELSE 0

\* what process_request_action yields: it panics, or returns a code and
\* leaves the state st
Panicked(st) == [panic |-> TRUE, code |-> Code("", <<>>), st |-> st]

Returned(code, st) == [panic |-> FALSE, code |-> code, st |-> st]

\* ListPlayersAction that lists the first player only
ListPlayersAction_First(st) ==
    Returned(Code("PlayerList",
                  [i \in 1..(IF Len(st.players) = 0 THEN 0 ELSE 1) |->
                      st.players[i].player_name]), st)

\* RequestAction::ListPlayers
ListPlayersAction(st) ==
    Returned(Code("PlayerList",
                  [i \in 1..Len(st.players) |-> st.players[i].player_name]), st)

\* RequestAction::ListGameSlots
ListGameSlotsAction(st) ==
    Returned(Code("GameSlotList",
                  [i \in 1..Len(st.game_slots) |->
                      <<st.game_slots[i].name,
                        Len(st.game_slots[i].player_ids),
                        st.game_slots[i].game_running>>]), st)

\* PushMessage that inserts at the front
PushMessage_Front(pending, player_id, msg) == <<<<player_id, msg>>>> \o pending

\* Vec::push of (player_id, msg) onto pending_messages
PushMessage(pending, player_id, msg) == Append(pending, <<player_id, msg>>)

\* RequestAction::ChatMessage(msg)
ChatMessageAction(st, player_id, msg) ==
    LET InGame(p) == p.player_id = player_id /\ p.game_info # <<>>
        pi == FirstIndex([i \in 1..Len(st.players) |-> InGame(st.players[i])])
    IN  IF pi = 0
        THEN Returned(Code("BadRequest", <<"player not found">>), st)
        ELSE LET slot_id == st.players[pi].game_info[1]
                 HasId(gs) == gs.game_slot_id = slot_id
                 gi == FirstIndex([i \in 1..Len(st.game_slots) |-> HasId(st.game_slots[i])])
             IN  IF gi = 0
                 THEN Returned(Code("BadRequest", <<"player not in game">>), st)
                 ELSE Returned(Code("OK", <<>>),
                          [st EXCEPT !.game_slots[gi].pending_messages =
                              PushMessage(@, player_id, msg)])

\* the length check of NewGameSlot: name.len() > MAX_GAME_SLOT_NAME
NameTooLong(name) == StrLen(name) > MAX_GAME_SLOT_NAME

\* RequestAction::NewGameSlot(name), slot_id being what new_cookie() returns
NewGameSlotAction(st, name, slot_id) ==
    IF NameTooLong(name)
    THEN Returned(Code("BadRequest", <<"game slot name too long">>), st)
    ELSE Returned(Code("OK", <<>>),
             [st EXCEPT !.game_slots = Append(@, GameSlotNew(name, <<>>, slot_id))])

\* JoinSlot that overwrites the member list
JoinSlot_Replace(gs, player_id) == [gs EXCEPT !.player_ids = <<player_id>>]

\* JoinSlot that leaves the member list as it is
JoinSlot_Skip(gs, player_id) == gs

\* the slot JoinGameSlot attaches the caller to: player_ids gets the caller
JoinSlot(gs, player_id) == [gs EXCEPT !.player_ids = Append(@, player_id)]

\* RequestAction::JoinGameSlot(slot_name)
JoinGameSlotAction(st, player_id, slot_name) ==
    IF player_id + 1 > Len(st.players)
    THEN Panicked(st)
    ELSE LET Named(gs) == gs.name = slot_name
             gi == FirstIndex([i \in 1..Len(st.game_slots) |-> Named(st.game_slots[i])])
         IN  IF gi = 0
             THEN Returned(Code("BadRequest", <<"no game slot named">>), st)
             ELSE Returned(Code("OK", <<>>),
                      [st EXCEPT
                          !.game_slots[gi] = JoinSlot(@, st.players[player_id + 1].player_id),
                          !.players[player_id + 1].game_info =
                              <<st.game_slots[gi].game_slot_id>>])

\* NotImplemented that answers OK and changes nothing
NotImplemented_Silent(st) == Returned(Code("OK", <<>>), st)

\* unimplemented!(): the arms of Disconnect, KeepAlive and LeaveGameSlot
NotImplemented(st) == Panicked(st)

\* ServerState::process_request_action
ProcessRequestAction(st, player_id, action, slot_id) ==
    CASE action.tag = "Disconnect"    -> NotImplemented(st)
      [] action.tag = "KeepAlive"     -> NotImplemented(st)
      [] action.tag = "ListPlayers"   -> ListPlayersAction(st)
      [] action.tag = "ChatMessage"   -> ChatMessageAction(st, player_id, action.arg)
      [] action.tag = "ListGameSlots" -> ListGameSlotsAction(st)
      [] action.tag = "NewGameSlot"   -> NewGameSlotAction(st, action.arg, slot_id)
      [] action.tag = "JoinGameSlot"  -> JoinGameSlotAction(st, player_id, action.arg)
      [] action.tag = "LeaveGameSlot" -> NotImplemented(st)
      [] action.tag = "Connect"       -> Panicked(st)
      [] action.tag = "None"          -> Panicked(st)

(* ----------------------------- decode_packet --------------------------- *)

\* is_unique_name that accepts every name
is_unique_name_Always(st, name) == TRUE

\* is_unique_name that compares with the newest player only
is_unique_name_Last(st, name) ==
    Len(st.players) = 0 \/ st.players[Len(st.players)].player_name # name

\* ServerState::is_unique_name
is_unique_name(st, name) ==
    \A i \in 1..Len(st.players) : st.players[i].player_name # name

\* get_player_id_by_cookie that falls back to the first player
get_player_id_by_cookie_Default(st, cookie) ==
    IF MapGet(st.player_map, cookie) = <<>> /\ Len(st.players) > 0
    THEN <<st.players[1].player_id>>
    ELSE MapGet(st.player_map, cookie)

\* ServerState::get_player_id_by_cookie
get_player_id_by_cookie(st, cookie) == MapGet(st.player_map, cookie)

\* what decode_packet yields: Ok(Some(response)), Err(kind) or a panic; the
\* state it leaves; the action handed to process_request_action, if any; the
\* player the request was attributed to, if any
DecodeOk(response, st, dispatched, player) ==
    [ret |-> "Ok", response |-> <<response>>, err |-> "", msg |-> "", st |-> st,
     dispatched |-> dispatched, player |-> player]

DecodeErr(kind, msg, st) ==
    [ret |-> "Err", response |-> <<>>, err |-> kind, msg |-> msg, st |-> st,
     dispatched |-> <<>>, player |-> <<>>]

DecodePanic(st, dispatched, player) ==
    [ret |-> "Panic", response |-> <<>>, err |-> "", msg |-> "", st |-> st,
     dispatched |-> dispatched, player |-> player]

\* BumpSeq without the increment
BumpSeq_Stuck(seq) == seq

\* the player's next_resp_seq after a response was issued to it
BumpSeq(seq) == seq + 1

\* the successful Connect: the player is created, its cookie indexed
ConnectNew(st, name, addr, cookie) ==
    LET player == NewPlayerRecord(st, name, addr, cookie)
        st1 == NewPlayerState(st)
        sequence == player.next_resp_seq
        stored == [player EXCEPT !.next_resp_seq = BumpSeq(@)]
    IN  DecodeOk(Response(sequence, Code("LoggedIn", <<cookie>>)),
                 [st1 EXCEPT !.player_map = MapInsert(@, cookie, player.player_id),
                             !.players = Append(@, stored)],
                 <<>>, <<player.player_id>>)

\* the Connect whose name is in use
ConnectRefused(st) ==
    DecodeOk(Response(0, Code("Unauthorized", <<"not a unique name">>)), st, <<>>, <<>>)

\* the request of an authenticated player: dispatch, then number the response
Dispatch(st, player_id, action, slot_id) ==
    LET r == ProcessRequestAction(st, player_id, action, slot_id)
    IN  IF r.panic \/ player_id + 1 > Len(r.st.players)
        THEN DecodePanic(r.st, <<action.tag>>, <<player_id>>)
        ELSE LET sequence == r.st.players[player_id + 1].next_resp_seq
             IN  DecodeOk(Response(sequence, r.code),
                          [r.st EXCEPT !.players[player_id + 1].next_resp_seq = BumpSeq(@)],
                          <<action.tag>>, <<player_id>>)

\* MissingCookie that asks a cookie of a Connect too
MissingCookie_Every(packet) == packet.cookie = <<>>

\* the first cookie check of decode_packet: only a Connect may lack a cookie
MissingCookie(packet) == packet.action.tag # "Connect" /\ packet.cookie = <<>>

\* the request that is no Connect: look the player up by cookie, then dispatch
Authenticated(st, packet, fresh) ==
    IF packet.cookie = <<>>
    THEN DecodeErr("InvalidData", "cookie required for non-connect actions", st)
    ELSE LET found == get_player_id_by_cookie(st, packet.cookie[1])
         IN  IF found = <<>>
             THEN DecodeErr("PermissionDenied", "invalid cookie", st)
             ELSE Dispatch(st, found[1], packet.action, fresh)

\* ServerState::decode_packet; fresh is what new_cookie() returns if it is
\* called (by new_player for a Connect, by GameSlot::new for a NewGameSlot)
DecodePacket(st, addr, packet, fresh) ==
    CASE packet.kind \in {"Response", "Update"} ->
            DecodeErr("InvalidData", "invalid packet - server-only", st)
      [] packet.kind = "UpdateReply" -> DecodePanic(st, <<>>, <<>>)
      [] packet.kind = "Request" ->
            IF MissingCookie(packet)
            THEN DecodeErr("InvalidData", "no cookie", st)
            ELSE IF packet.action.tag = "Connect"
            THEN IF is_unique_name(st, packet.action.arg)
                 THEN ConnectNew(st, packet.action.arg, addr, fresh)
                 ELSE ConnectRefused(st)
            ELSE Authenticated(st, packet, fresh)

(* --------------------------- transport layer --------------------------- *)

\* the endpoints, transmit ids, retry intervals and idle timeouts of the
\* commands, intervals and timeouts counted in ticks of the layer's clock
Endpoints == {"e1", "e2"}
Tids == {1, 2}
RetryIntervals == {1, 2}
Timeouts == {1}

\* the numbers of packets of a SendPackets command
BatchLengths == {0, 1, 2}

\* the encoded sizes of the packets handed to SendPackets
PacketSizes == {UDP_MTU_SIZE, UDP_MTU_SIZE + 1}

\* the capacity of the transmit queue of an endpoint
QueueCapacity == 2

\* struct PacketSettings
PacketSettings(tid, retry_interval) == [tid |-> tid, retry_interval |-> retry_interval]

\* an endpoint's record at registration
EndpointNew(timeout) == [timeout |-> timeout, idle |-> 0, fired |-> 0]

\* a transmit entry at the time it is queued
EntryNew(info, size) ==
    [tid |-> info.tid, retry_interval |-> info.retry_interval, size |-> size, elapsed |-> 0]

\* enum TransportRsp, with the EndpointDataError of an EndpointError
Rsp(tag, error, tid) == [tag |-> tag, error |-> error, tid |-> tid]

Accepted == Rsp("Accepted", "", 0)

EndpointError(error) == Rsp("EndpointError", error, 0)

\* enum TransportNotice
Notice(tag, endpoint) == [tag |-> tag, endpoint |-> endpoint]

\* the layer with no endpoint: endpoints[e] is None or the record of e,
\* queue[e] its transmit entries by arrival, rsp, notices and transmitted
\* the response, the notices and the (endpoint, tid) transmissions of the
\* last step
TransportNew ==
    [endpoints |-> [e \in Endpoints |-> <<>>],
     queue |-> [e \in Endpoints |-> <<>>],
     rsp |-> Rsp("", "", 0), notices |-> {}, transmitted |-> {}]

\* the layer after a command answered rsp
Reply(t, rsp) == [t EXCEPT !.rsp = rsp, !.notices = {}, !.transmitted = {}]

Registered(t, e) == t.endpoints[e] # <<>>

QueuedTids(t, e) == {t.queue[e][i].tid : i \in 1..Len(t.queue[e])}

\* the queue without the entries of the transmit ids
Without(queue, tids) == SelectSeq(queue, LAMBDA x : x.tid \notin tids)

\* NewEndpoint that registers over an existing endpoint
NewEndpoint_Again(t, e, timeout) ==
    Reply([t EXCEPT !.endpoints[e] = <<EndpointNew(timeout)>>], Accepted)

\* TransportCmd::NewEndpoint
NewEndpoint(t, e, timeout) ==
    IF Registered(t, e)
    THEN Reply(t, EndpointError("EndpointExists"))
    ELSE Reply([t EXCEPT !.endpoints[e] = <<EndpointNew(timeout)>>], Accepted)

\* TransportCmd::DropEndpoint
DropEndpoint(t, e) ==
    IF ~Registered(t, e)
    THEN Reply(t, EndpointError("EndpointNotFound"))
    ELSE Reply([t EXCEPT !.endpoints[e] = <<>>, !.queue[e] = <<>>], Accepted)

\* the index of the first packet over the ceiling, 0 if there is none
FirstOversize(packets) ==
    FirstIndex([i \in 1..Len(packets) |-> packets[i] > UDP_MTU_SIZE])

\* the entries a SendPackets command queues
NewEntries(packet_infos, packets) ==
    [i \in 1..Len(packets) |-> EntryNew(packet_infos[i], packets[i])]

\* SendPackets that queues the packets before the one over the ceiling
SendPackets_Partial(t, e, packet_infos, packets) ==
    IF Len(packet_infos) # Len(packets)
    THEN Reply(t, Rsp("SendPacketsLengthMismatch", "", 0))
    ELSE IF FirstOversize(packets) # 0
    THEN Reply([t EXCEPT !.queue[e] =
                    @ \o SubSeq(NewEntries(packet_infos, packets), 1,
                                FirstOversize(packets) - 1)],
               Rsp("ExceedsMtu", "", packet_infos[FirstOversize(packets)].tid))
    ELSE IF ~Registered(t, e)
    THEN Reply(t, EndpointError("EndpointNotFound"))
    ELSE IF Len(t.queue[e]) + Len(packets) > QueueCapacity
    THEN Reply(t, Rsp("BufferFull", "", 0))
    ELSE [Reply([t EXCEPT !.queue[e] = @ \o NewEntries(packet_infos, packets)], Accepted)
             EXCEPT !.transmitted = {<<e, packet_infos[i].tid>> : i \in 1..Len(packets)}]

\* SendPackets that pairs the settings and the packets as far as both go
SendPackets_Zip(t, e, packet_infos, packets) ==
    LET n == IF Len(packet_infos) < Len(packets) THEN Len(packet_infos) ELSE Len(packets)
        infos == SubSeq(packet_infos, 1, n)
        pkts == SubSeq(packets, 1, n)
    IN  IF FirstOversize(pkts) # 0
        THEN Reply(t, Rsp("ExceedsMtu", "", infos[FirstOversize(pkts)].tid))
        ELSE IF ~Registered(t, e)
        THEN Reply(t, EndpointError("EndpointNotFound"))
        ELSE IF Len(t.queue[e]) + n > QueueCapacity
        THEN Reply(t, Rsp("BufferFull", "", 0))
        ELSE [Reply([t EXCEPT !.queue[e] = @ \o NewEntries(infos, pkts)], Accepted)
                 EXCEPT !.transmitted = {<<e, infos[i].tid>> : i \in 1..n}]

\* TransportCmd::SendPackets, a packet being given by its encoded size
SendPackets(t, e, packet_infos, packets) ==
    IF Len(packet_infos) # Len(packets)
    THEN Reply(t, Rsp("SendPacketsLengthMismatch", "", 0))
    ELSE IF FirstOversize(packets) # 0
    THEN Reply(t, Rsp("ExceedsMtu", "", packet_infos[FirstOversize(packets)].tid))
    ELSE IF ~Registered(t, e)
    THEN Reply(t, EndpointError("EndpointNotFound"))
    ELSE IF Len(t.queue[e]) + Len(packets) > QueueCapacity
    THEN Reply(t, Rsp("BufferFull", "", 0))
    ELSE [Reply([t EXCEPT !.queue[e] = @ \o NewEntries(packet_infos, packets)], Accepted)
             EXCEPT !.transmitted = {<<e, packet_infos[i].tid>> : i \in 1..Len(packets)}]

\* TransportCmd::DropPacket
DropPacket(t, e, tid) ==
    IF ~Registered(t, e)
    THEN Reply(t, EndpointError("EndpointNotFound"))
    ELSE IF tid \notin QueuedTids(t, e)
    THEN Reply(t, EndpointError("TransmitIDNotFound"))
    ELSE Reply([t EXCEPT !.queue[e] = Without(@, {tid})], Accepted)

\* CancelTransmitQueue that drops the endpoint with its queue
CancelTransmitQueue_Drop(t, e) == DropEndpoint(t, e)

\* TransportCmd::CancelTransmitQueue
CancelTransmitQueue(t, e) ==
    IF ~Registered(t, e)
    THEN Reply(t, EndpointError("EndpointNotFound"))
    ELSE Reply([t EXCEPT !.queue[e] = <<>>], Accepted)

\* a packet received from e that acknowledges the transmit ids acks: it is
\* delivered whether e is registered or not, and restarts the idle timer
PacketReceived(t, e, acks) ==
    [(IF Registered(t, e)
      THEN [t EXCEPT !.endpoints[e][1].idle = 0,
                     !.endpoints[e][1].fired = 0,
                     !.queue[e] = Without(@, acks)]
      ELSE t)
     EXCEPT !.notices = {Notice("PacketDelivery", e)}, !.transmitted = {}]

\* TimesOut that forgets the notice already given
TimesOut_Again(ep) == ep.idle + 1 >= ep.timeout

\* whether a tick finds the idle timeout of the endpoint exceeded for the
\* first time since its last packet
TimesOut(ep) == ep.idle + 1 >= ep.timeout /\ ep.fired = 0

\* Due of a queue that transmits an entry once
Due_Never(x) == FALSE

\* whether a tick finds the retry interval of the entry elapsed
Due(x) == x.elapsed + 1 >= x.retry_interval

\* the transmit ids of the entries of e that a tick transmits again
DueTids(t, e) == {t.queue[e][i].tid : i \in {j \in 1..Len(t.queue[e]) : Due(t.queue[e][j])}}

\* the entry after a tick
EntryTick(x) == [x EXCEPT !.elapsed = IF Due(x) THEN 0 ELSE @ + 1]

\* the endpoint after a tick
EndpointTick(ep) ==
    [ep EXCEPT !.idle = @ + 1, !.fired = IF TimesOut(ep) THEN @ + 1 ELSE @]

\* a tick of the layer's clock: every entry whose interval elapsed is
\* transmitted again, every endpoint idle for its timeout is notified once
TransportTick(t) ==
    [t EXCEPT
        !.endpoints = [e \in Endpoints |->
                          IF Registered(t, e) THEN <<EndpointTick(t.endpoints[e][1])>>
                          ELSE <<>>],
        !.queue = [e \in Endpoints |->
                      [i \in 1..Len(t.queue[e]) |-> EntryTick(t.queue[e][i])]],
        !.notices = {Notice("EndpointTimeout", e) :
                        e \in {f \in Endpoints :
                                  Registered(t, f) /\ TimesOut(t.endpoints[f][1])}},
        !.transmitted = {p \in Endpoints \X Tids : p[2] \in DueTids(t, p[1])}]

(* ------------------------------ game client --------------------------- *)

\* Stage::Intro(remaining), remaining in seconds
Intro(remaining) == [tag |-> "Intro", remaining |-> remaining]

\* Stage::Run
Run == [tag |-> "Run", remaining |-> 0]

\* dt of update, in seconds
Durations == {1, 3}

\* keycode of key_down_event: None, Space, another key
Keycodes == {<<>>, <<"Space">>, <<"Return">>}

\* button of mouse_button_down_event
Buttons == {"Left", "Right"}

\* window points of the mouse events: in cell (0, 0), in cell (1, 1), left
\* of the window, right of the grid
Points == {<<0, 0>>, <<45, 31>>, <<-5, 3>>, <<7680, 10>>}

\* the cells of the universe the model follows
ProbeCells == {<<0, 0>>, <<1, 1>>}

\* the GridView of load, as far as the coordinate mapping reads it
GridViewNew ==
    [cell_size |-> 30, columns |-> 64 * 4, rows |-> 30 * 4,
     grid_origin |-> <<0, 0>>]

\* i32 division, which truncates toward zero
TruncDiv(a, b) == IF a >= 0 THEN a \div b ELSE -((-a) \div b)

\* GridView::game_coords_from_window: Some((col, row)) or None
game_coords_from_window(gv, point) ==
    LET col == TruncDiv(point[1] - gv.grid_origin[1], gv.cell_size)
        row == TruncDiv(point[2] - gv.grid_origin[2], gv.cell_size)
    IN  IF col < 0 \/ col >= gv.columns \/ row < 0 \/ row >= gv.rows
        THEN <<>>
        ELSE <<<<col, row>>>>

\* Universe::new: the first generation; the pattern load toggles lies
\* outside the probed cells
UniverseNew == [gen |-> 1, cells |-> {}]

\* Universe::toggle
Toggle(uni, cell) ==
    [uni EXCEPT !.cells = IF cell \in @ THEN @ \ {cell} ELSE @ \cup {cell}]

\* Universe::next: the generation counter advances; the cells are those the
\* rule of the universe gives, any set as far as the client's code goes
NextGenerations(uni) ==
    {[gen |-> uni.gen + 1, cells |-> c] : c \in SUBSET ProbeCells}

\* the callback the client ran last and its inputs
ClientEvent(name, input) == [name |-> name, input |-> input]

\* MainState after load
MainStateNew ==
    [stage               |-> Intro(INTRO_DURATION),
     uni                 |-> UniverseNew,
     first_gen_was_drawn |-> FALSE,
     grid_view           |-> GridViewNew,
     running             |-> TRUE,
     event               |-> ClientEvent("load", <<>>)]

\* Advances of an update that does not wait for the first draw
Advances_Undrawn(s) == s.running

\* the condition under which update computes the next generation
Advances(s) == s.first_gen_was_drawn /\ s.running

\* MainState::update: the states it may leave
update(s, dt) ==
    IF s.stage.tag = "Intro"
    THEN LET remaining == s.stage.remaining - dt
         IN  {[s EXCEPT !.stage = IF remaining > 0 THEN Intro(remaining) ELSE Run]}
    ELSE IF Advances(s)
         THEN {[s EXCEPT !.uni = u] : u \in NextGenerations(s.uni)}
         ELSE {s}

\* MainState::draw
draw(s) ==
    IF s.stage.tag = "Intro" THEN s ELSE [s EXCEPT !.first_gen_was_drawn = TRUE]

\* MainState::mouse_button_down_event
mouse_button_down_event(s, button, point) ==
    IF button = "Left" /\ game_coords_from_window(s.grid_view, point) # <<>>
    THEN [s EXCEPT !.uni = Toggle(@, game_coords_from_window(s.grid_view, point)[1])]
    ELSE s

\* MainState::key_down_event (keymod is not read)
key_down_event(s, keycode, repeat) ==
    IF s.stage.tag = "Intro"
    THEN [s EXCEPT !.stage = Run]
    ELSE IF keycode = <<"Space">> /\ ~repeat
         THEN [s EXCEPT !.running = ~s.running]
         ELSE s

(* ------------------------------ event loop ----------------------------- *)

\* what the loop did with its last event: the event, what decode_packet
\* yielded, and the item handed to the outbound channel (tx.unbounded_send),
\* if any
NoEvent ==
    [event |-> "none", ret |-> "", err |-> "", msg |-> "", response |-> <<>>,
     dispatched |-> <<>>, player |-> <<>>, sent |-> <<>>]

TickDone == [NoEvent EXCEPT !.event = "tick"]

\* Outgoing that addresses the response to the address stored at Connect
Outgoing_Stored(addr, r) ==
    IF r.ret = "Ok" /\ r.response # <<>>
    THEN <<IF r.player # <<>> /\ r.player[1] < Len(r.st.players)
           THEN r.st.players[r.player[1] + 1].addr ELSE addr,
           r.response[1]>>
    ELSE <<>>

\* the item the loop sends for what decode_packet yielded
Outgoing(addr, r) ==
    IF r.ret = "Ok" /\ r.response # <<>> THEN <<addr, r.response[1]>> ELSE <<>>

RequestDone(addr, r) ==
    [event |-> "request", ret |-> r.ret, err |-> r.err, msg |-> r.msg,
     response |-> r.response, dispatched |-> r.dispatched, player |-> r.player,
     sent |-> Outgoing(addr, r)]

\* the responses issued to the players from index i on
RECURSIVE SeqTotal(_, _)
SeqTotal(players, i) ==
    IF i > Len(players) THEN 0 ELSE players[i].next_resp_seq + SeqTotal(players, i + 1)

\* whether handling the packet calls new_cookie()
CallsNewCookie(packet) ==
    packet.kind = "Request" /\ packet.action.tag \in {"Connect", "NewGameSlot"}

\* the values new_cookie() may return while the packet is handled
Draws(packet) == IF CallsNewCookie(packet) THEN Cookies ELSE {ForgedCookie}

\* LoopContinues of a loop that unwraps the result without testing is_ok
LoopContinues_Unwrap(r) == r.ret = "Ok"

\* whether the loop goes on after decode_packet: an Err is printed, a panic
\* unwinds out of the fold and ends the process
LoopContinues(r) == r.ret # "Panic"

\* the states the model explores: at most bound numbered responses issued
WithinBounds(st, bound) == SeqTotal(st.players, 1) <= bound

\* history: issued[id + 1] lists the sequence numbers of the responses
\* decode_packet issued for player id, in order
Record(log, r) ==
    IF r.ret = "Ok" /\ r.player # <<>>
    THEN LET k == r.player[1] + 1
             log1 == IF k > Len(log) THEN Append(log, <<>>) ELSE log
         IN  [log1 EXCEPT ![k] = Append(@, r.response[1].sequence)]
    ELSE log

Init ==
    /\ server_state = ServerStateNew
    /\ alive = TRUE
    /\ last = NoEvent
    /\ issued = <<>>
    /\ chan = <<>>
    /\ wire = <<>>
    /\ transport = TransportNew
    /\ client = MainStateNew

\* Event::Request: the fold step of main on an inbound datagram, the
\* datagram's packet being one of packets, as far as the server state goes
HandleRequest(packets, bound) ==
    /\ alive
    /\ \E addr \in Addrs, packet \in packets :
       \E fresh \in Draws(packet) :
          \E r \in {DecodePacket(server_state, addr, packet, fresh)} :
              /\ WithinBounds(r.st, bound)
              /\ server_state' = r.st
              /\ alive' = LoopContinues(r)
              /\ last' = RequestDone(addr, r)
              /\ issued' = Record(issued, r)

\* Event::Request, the item sent being observed in last.sent
RequestStep(packets, bound) ==
    /\ HandleRequest(packets, bound)
    /\ UNCHANGED <<chan, wire, transport, client>>

RequestEvent == RequestStep(Packets, MaxResponses)

\* the packets of a single client, named "a"
OneClientPackets ==
    {p \in Packets : p.kind = "Request" /\ p.action.tag = "Connect" => p.action.arg = <<97>>}

\* Event::Request, the datagrams being those of a single client
OneClientRequestEvent == RequestStep(OneClientPackets, MaxClientResponses)

\* TickState of a handler that counts a tick twice
TickState_Twice(st) == [st EXCEPT !.tick = @ + 2]

\* the tick handler of main
TickState(st) == [st EXCEPT !.tick = @ + 1]

\* Event::TickEvent: the fold step of main on a tick
TickEvent ==
    /\ alive
    /\ server_state.tick < MaxTick
    /\ server_state' = TickState(server_state)
    /\ last' = TickDone
    /\ UNCHANGED <<alive, issued, chan, wire, transport, client>>

Next == RequestEvent \/ TickEvent

Spec == Init /\ [][Next]_vars

NextOneClient == OneClientRequestEvent \/ TickEvent

(* ------------------------- the size of a Response ---------------------- *)

\* the length of a long player name: a Connect that carries one fits a
\* datagram, and decode_packet puts no limit on the name of a Connect
LongNameLen == 740

LongNames == {[i \in 1..LongNameLen |-> 97], [i \in 1..LongNameLen |-> 98]}

\* the bytes of the strings from index i on
RECURSIVE NameBytesFrom(_, _)
NameBytesFrom(names, i) ==
    IF i > Len(names) THEN 0 ELSE StrLen(names[i]) + NameBytesFrom(names, i + 1)

\* the least size the encoding of a Response can have: an encoded PlayerList
\* or GameSlotList carries every byte of every name it lists
MinEncodedSize(response) ==
    CASE response.code.tag = "PlayerList" ->
             NameBytesFrom(response.code.payload, 1)
      [] response.code.tag = "GameSlotList" ->
             NameBytesFrom([g \in 1..Len(response.code.payload) |->
                               response.code.payload[g][1]], 1)
      [] OTHER -> 0

\* the datagrams of clients with long names that list players and slots
SizesPackets ==
    {Pkt("Request", 0, 0, <<>>, Act("Connect", n)) : n \in LongNames}
    \cup {Pkt("Request", 0, 0, <<c>>, Act(tag, <<>>)) :
             c \in Cookies, tag \in {"ListPlayers", "ListGameSlots"}}
    \cup {Pkt("Request", 0, 0, <<c>>, Act("NewGameSlot", Name16)) : c \in Cookies}

SizesRequestEvent == RequestStep(SizesPackets, MaxSizeResponses)

NextSizes == SizesRequestEvent \/ TickEvent

SpecSizes == Init /\ [][NextSizes]_vars

(* --------------------------- the pairing policy ------------------------ *)

\* ServerState::has_pending_players
has_pending_players(st) == Len(st.players) # 0 /\ Len(st.players) % 2 = 0

\* "some game slot", the name initiate_player_session gives a slot
SomeGameSlot == <<115, 111, 109, 101, 32, 103, 97, 109, 101, 32, 115, 108, 111, 116>>

\* Vec::pop: the vector without its last element
PopRest(players) == SubSeq(players, 1, Len(players) - 1)

\* ServerState::initiate_player_session, slot_id being what new_cookie()
\* returns: a and b are popped off players, the slot is pushed, and the
\* game_info set on a and b is dropped with them at the end of the block
initiate_player_session(st, slot_id) ==
    IF ~has_pending_players(st)
    THEN [panic |-> FALSE, st |-> st]
    ELSE IF Len(st.players) = 0
    THEN [panic |-> TRUE, st |-> st]
    ELSE LET a == st.players[Len(st.players)]
             rest == PopRest(st.players)
         IN  IF Len(rest) = 0
             THEN [panic |-> TRUE, st |-> [st EXCEPT !.players = rest]]
             ELSE LET b == rest[Len(rest)]
                      game_slot == GameSlotNew(SomeGameSlot,
                                               <<a.player_id, b.player_id>>, slot_id)
                  IN  [panic |-> FALSE,
                       st |-> [st EXCEPT !.players = PopRest(rest),
                                         !.game_slots = Append(@, game_slot),
                                         !.ctr = @ + 1]]

\* the names of the clients that connect before the policy is applied
PairNames == PlayerNames \cup {<<99>>, <<100>>}

\* the datagrams before the policy is applied: Connects, and the requests
\* that create a slot and put a player in it
PairingPackets ==
    {Pkt("Request", 0, 0, <<>>, Act("Connect", n)) : n \in PairNames}
    \cup {Pkt("Request", 0, 0, <<c>>, Act(tag, <<103>>)) :
             c \in Cookies, tag \in {"NewGameSlot", "JoinGameSlot"}}

\* the numbered responses issued so far, to the players popped off the list
\* too
RECURSIVE IssuedTotal(_, _)
IssuedTotal(log, k) ==
    IF k > Len(log) THEN 0 ELSE Len(log[k]) + IssuedTotal(log, k + 1)

PairingRequestEvent ==
    /\ RequestStep(PairingPackets, MaxPairResponses)
    /\ IssuedTotal(issued', 1) <= MaxPairResponses

PairingDone == [NoEvent EXCEPT !.event = "pairing"]

\* a call of initiate_player_session on the server state
PairingStep ==
    /\ alive
    /\ server_state.ctr < MaxPairings
    /\ \E fresh \in Cookies :
          \E r \in {initiate_player_session(server_state, fresh)} :
              /\ server_state' = r.st
              /\ alive' = ~r.panic
    /\ last' = PairingDone
    /\ UNCHANGED <<issued, chan, wire, transport, client>>

NextPairing == PairingRequestEvent \/ PairingStep

SpecPairing == Init /\ [][NextPairing]_vars

\* the server with a single client, followed further
SpecOneClient == Init /\ [][NextOneClient]_vars

(* -------------------------- the outbound channel ----------------------- *)

\* the datagrams of the runs that follow the channel: one client that
\* connects, lists the players, creates and joins slots, chats and sends a
\* KeepAlive, and a packet the server refuses
ChannelPackets ==
    {Pkt("Request", 0, 0, <<>>, Act("Connect", <<97>>)),
     Pkt("Response", 0, 0, <<>>, Act("None", <<>>))}
    \cup {Pkt("Request", 0, 0, <<c>>, a) :
             c \in Cookies,
             a \in {Act("ListPlayers", <<>>), Act("NewGameSlot", <<103>>),
                    Act("JoinGameSlot", <<103>>), Act("ChatMessage", <<104>>),
                    Act("KeepAlive", <<>>)}}

\* tx.unbounded_send: the channel with the item sent, if any
Enqueue(c, sent) == IF sent = <<>> THEN c ELSE Append(c, sent)

\* Event::Request with the channel: the response goes to the unbounded
\* channel and the fold step ends without waiting for the socket
ChannelRequestEvent ==
    /\ Len(wire) + Len(chan) < MaxSent
    /\ HandleRequest(ChannelPackets, MaxChannelResponses)
    /\ chan' = Enqueue(chan, last'.sent)
    /\ UNCHANGED <<wire, transport, client>>

\* SinkNext of a send path that takes the newest item first
SinkNext_Lifo(c) == [item |-> c[Len(c)], rest |-> SubSeq(c, 1, Len(c) - 1)]

\* the item rx yields to the fold of sink_fut, and the channel after it
SinkNext(c) == [item |-> Head(c), rest |-> Tail(c)]

\* a fold step of sink_fut: the next item of the channel is sent on the
\* socket; the send path runs as long as the process does
SinkStep ==
    /\ alive
    /\ chan # <<>>
    /\ wire' = Append(wire, SinkNext(chan).item)
    /\ chan' = SinkNext(chan).rest
    /\ UNCHANGED <<server_vars, transport, client>>

NextSend == ChannelRequestEvent \/ TickEvent \/ SinkStep

\* core.run polls sink_fut whenever the channel holds an item
SpecSend == Init /\ [][NextSend]_vars /\ WF_vars(SinkStep)

(* ---------------------- the transport layer's commands ----------------- *)

\* the sequences of elements of S with one of the lengths
SeqsOf(S, lengths) == UNION {[1..k -> S] : k \in lengths}

InfoLists ==
    SeqsOf({PacketSettings(tid, ri) : tid \in Tids, ri \in RetryIntervals}, BatchLengths)

PacketLists == SeqsOf(PacketSizes, BatchLengths)

\* the layer between two steps: the response, the notices and the
\* transmissions of a step are read by the caller and do not stay
Settled(t) == [t EXCEPT !.rsp = Rsp("", "", 0), !.notices = {}, !.transmitted = {}]

\* what the caller of SendPackets keeps: a tid names one packet of the
\* endpoint, in the command and in the queue
UniqueTids(t, e, packet_infos) ==
    /\ \A i, j \in 1..Len(packet_infos) :
          packet_infos[i].tid = packet_infos[j].tid => i = j
    /\ \A i \in 1..Len(packet_infos) : packet_infos[i].tid \notin QueuedTids(t, e)

NewEndpointCmd ==
    /\ \E e \in Endpoints, timeout \in Timeouts :
          transport' = Settled(NewEndpoint(transport, e, timeout))
    /\ UNCHANGED <<server_vars, chan, wire, client>>

SendPacketsCmd ==
    /\ \E e \in Endpoints, packet_infos \in InfoLists :
          /\ UniqueTids(transport, e, packet_infos)
          /\ \E packets \in PacketLists :
                transport' = Settled(SendPackets(transport, e, packet_infos, packets))
    /\ UNCHANGED <<server_vars, chan, wire, client>>

DropEndpointCmd ==
    /\ \E e \in Endpoints : transport' = Settled(DropEndpoint(transport, e))
    /\ UNCHANGED <<server_vars, chan, wire, client>>

DropPacketCmd ==
    /\ \E e \in Endpoints, tid \in Tids : transport' = Settled(DropPacket(transport, e, tid))
    /\ UNCHANGED <<server_vars, chan, wire, client>>

CancelTransmitQueueCmd ==
    /\ \E e \in Endpoints : transport' = Settled(CancelTransmitQueue(transport, e))
    /\ UNCHANGED <<server_vars, chan, wire, client>>

\* the acknowledgements an inbound packet carries: none, or one transmit id
AckSets == {{}} \cup {{tid} : tid \in Tids}

PacketReceivedStep ==
    /\ \E e \in Endpoints, acks \in AckSets :
          transport' = Settled(PacketReceived(transport, e, acks))
    /\ UNCHANGED <<server_vars, chan, wire, client>>

TransportTickStep ==
    /\ \A e \in Endpoints :
          Registered(transport, e) => transport.endpoints[e][1].idle < MaxIdle
    /\ transport' = Settled(TransportTick(transport))
    /\ UNCHANGED <<server_vars, chan, wire, client>>

NextTransport ==
    \/ NewEndpointCmd
    \/ SendPacketsCmd
    \/ DropEndpointCmd
    \/ DropPacketCmd
    \/ CancelTransmitQueueCmd
    \/ PacketReceivedStep
    \/ TransportTickStep

SpecTransport == Init /\ [][NextTransport]_vars

(* ----------------------- the callbacks of the client ------------------- *)

\* the state a callback leaves, with the callback recorded
After(s, name, input) == [s EXCEPT !.event = ClientEvent(name, input)]

\* the game loop calls update with the time since the last frame
UpdateStep ==
    /\ client.uni.gen < MaxGen
    /\ \E dt \in Durations : \E s \in update(client, dt) :
          client' = After(s, "update", <<dt>>)
    /\ UNCHANGED <<server_vars, chan, wire, transport>>

\* the game loop calls draw
DrawStep ==
    /\ client' = After(draw(client), "draw", <<>>)
    /\ UNCHANGED <<server_vars, chan, wire, transport>>

\* a mouse button goes down
MouseButtonDownStep ==
    /\ \E button \in Buttons, point \in Points :
          client' = After(mouse_button_down_event(client, button, point),
                          "mouse_button_down", <<button, point>>)
    /\ UNCHANGED <<server_vars, chan, wire, transport>>

\* a key goes down
KeyDownStep ==
    /\ \E keycode \in Keycodes, repeat \in BOOLEAN :
          client' = After(key_down_event(client, keycode, repeat),
                          "key_down", <<keycode, repeat>>)
    /\ UNCHANGED <<server_vars, chan, wire, transport>>

NextClient == UpdateStep \/ DrawStep \/ MouseButtonDownStep \/ KeyDownStep

SpecClient == Init /\ [][NextClient]_vars

(* ------------------------- what the claims read ------------------------ *)

\* the number of characters of a string
CharCount(s) == Len(s)

\* the set of the elements of a sequence
Range(seq) == {seq[i] : i \in 1..Len(seq)}

\* the cookies that are keys of player_map
KnownCookies == {e[1] : e \in server_state.player_map}

\* the requests with a given action tag
RequestsOf(tags) == {p \in Packets : p.kind = "Request" /\ p.action.tag \in tags}

\* whether some player has the name
NameInUse(name) == \E i \in 1..Len(server_state.players) :
                      server_state.players[i].player_name = name

(* ------------------------------- C1 ------------------------------------ *)

\* C1: for every player the sequence numbers of the responses decode_packet
\* issued for it are 0, 1, 2, ... in this order, with no gap and no repeat:
\* the LoggedIn response of its Connect carries 0 and each later response to
\* a request attributed to it carries one more, whatever the result code and
\* however the requests of other players and the ticks interleave.
C1_ResponseSequence ==
    /\ Len(issued) = Len(server_state.players)
    /\ \A k \in 1..Len(issued) :
          /\ Len(issued[k]) >= 1
          /\ \A i \in 1..Len(issued[k]) : issued[k][i] = i - 1
          /\ server_state.players[k].next_resp_seq = Len(issued[k])

\* C1 witness: after a tick was handled, a player got its third response, a
\* BadRequest numbered 2
C1_Witness ==
    /\ server_state.tick = 1
    /\ last.ret = "Ok"
    /\ last.player # <<>>
    /\ last.response[1].code.tag = "BadRequest"
    /\ last.response[1].sequence = 2
    /\ issued[last.player[1] + 1] = <<0, 1, 2>>

(* ------------------------------- C2 ------------------------------------ *)

\* C2: a Connect whose name belongs to an existing player returns a Response
\* with code Unauthorized and leaves ServerState as it was; a Connect whose
\* name is not in use returns LoggedIn(cookie) and creates exactly one
\* player, appended to players with that cookie and name, sequence counter 1
\* after the response numbered 0, and no slot membership; the earlier
\* players and the game slots are unchanged.
C2_Connect ==
    \A addr \in Addrs, packet \in RequestsOf({"Connect"}), fresh \in Cookies :
        LET r == DecodePacket(server_state, addr, packet, fresh)
            n == Len(server_state.players)
        IN  IF NameInUse(packet.action.arg)
            THEN /\ r.ret = "Ok"
                 /\ r.response[1].code.tag = "Unauthorized"
                 /\ r.st = server_state
            ELSE /\ r.ret = "Ok"
                 /\ r.response[1].code = Code("LoggedIn", <<fresh>>)
                 /\ r.response[1].sequence = 0
                 /\ Len(r.st.players) = n + 1
                 /\ SubSeq(r.st.players, 1, n) = server_state.players
                 /\ r.st.players[n + 1].player_name = packet.action.arg
                 /\ r.st.players[n + 1].cookie = fresh
                 /\ r.st.players[n + 1].game_info = <<>>
                 /\ r.st.next_player_id = server_state.next_player_id + 1
                 /\ r.st.game_slots = server_state.game_slots
                 /\ r.st.tick = server_state.tick

\* C2 witness: a Connect was refused with Unauthorized while a player exists
C2_Witness ==
    /\ last.ret = "Ok"
    /\ last.response[1].code.tag = "Unauthorized"
    /\ Len(server_state.players) >= 1
    /\ last.player = <<>>

(* ------------------------------- C3 ------------------------------------ *)

\* C3: cookie -> player is a bijection onto the players: the players'
\* cookies are pairwise different, the keys of player_map are exactly the
\* players' cookies, and player_map maps each player's cookie to that
\* player's own id.
C3_CookieBijection ==
    LET ps == server_state.players
    IN  /\ \A i, j \in 1..Len(ps) : i # j => ps[i].cookie # ps[j].cookie
        /\ KnownCookies = {ps[i].cookie : i \in 1..Len(ps)}
        /\ \A i \in 1..Len(ps) :
              MapGet(server_state.player_map, ps[i].cookie) = <<ps[i].player_id>>
(* ------------------------------- C4 ------------------------------------ *)

\* C4: a request whose action is not Connect and whose cookie is no key of
\* player_map fails with a PermissionDenied error before
\* process_request_action is reached, for every such action (KeepAlive,
\* Disconnect, LeaveGameSlot and None included): no Response is produced and
\* ServerState is unchanged.
C4_UnknownCookie ==
    \A addr \in Addrs, packet \in Packets : \A fresh \in Draws(packet) :
        (/\ packet.kind = "Request"
         /\ packet.action.tag # "Connect"
         /\ packet.cookie # <<>>
         /\ packet.cookie[1] \notin KnownCookies)
        => LET r == DecodePacket(server_state, addr, packet, fresh)
           IN  /\ r.ret = "Err"
               /\ r.err = "PermissionDenied"
               /\ r.response = <<>>
               /\ r.dispatched = <<>>
               /\ r.st = server_state
               /\ Outgoing(addr, r) = <<>>

\* C4 witness: with a player connected, a request was refused with
\* PermissionDenied and nothing was sent
C4_Witness ==
    /\ last.ret = "Err"
    /\ last.err = "PermissionDenied"
    /\ last.sent = <<>>
    /\ Len(server_state.players) >= 1

(* ------------------------------- C5 ------------------------------------ *)

\* C5: a Request whose action is not Connect and that carries no cookie is
\* rejected as malformed (an InvalidData error, no Response, ServerState
\* unchanged), whereas a Connect request that carries no cookie is accepted
\* and answered.
C5_MissingCookie ==
    \A addr \in Addrs, packet \in Packets : \A fresh \in Draws(packet) :
        (packet.kind = "Request" /\ packet.cookie = <<>>)
        => LET r == DecodePacket(server_state, addr, packet, fresh)
           IN  IF packet.action.tag = "Connect"
               THEN /\ r.ret = "Ok"
                    /\ r.response # <<>>
                    /\ r.response[1].code.tag \in {"LoggedIn", "Unauthorized"}
               ELSE /\ r.ret = "Err"
                    /\ r.err = "InvalidData"
                    /\ r.response = <<>>
                    /\ r.dispatched = <<>>
                    /\ r.st = server_state

\* C5 witness: with a player connected, a request without a cookie was
\* rejected as malformed
C5_Witness ==
    /\ last.ret = "Err"
    /\ last.err = "InvalidData"
    /\ last.msg = "no cookie"
    /\ Len(server_state.players) >= 1

(* ------------------------------- C6 ------------------------------------ *)

\* whether decode_packet must fail on the packet: an inbound Response or
\* Update, a request other than Connect with no cookie or an unknown one
MustFail(packet) ==
    \/ packet.kind \in {"Response", "Update"}
    \/ /\ packet.kind = "Request"
       /\ packet.action.tag # "Connect"
       /\ (packet.cookie = <<>> \/ packet.cookie[1] \notin KnownCookies)

\* C6: a decode or authentication failure (an inbound Response or Update, a
\* missing cookie, an unknown cookie) aborts only that datagram: decode_packet
\* returns an error with ServerState as it was before the datagram, nothing is
\* sent, and the event loop goes on, so later events are handled from the
\* state the failed datagram found.
C6_FailureIsLocal ==
    /\ last.ret = "Err" => alive
    /\ \A addr \in Addrs, packet \in Packets : \A fresh \in Draws(packet) :
          MustFail(packet)
          => LET r == DecodePacket(server_state, addr, packet, fresh)
             IN  /\ r.ret = "Err"
                 /\ r.st = server_state
                 /\ Outgoing(addr, r) = <<>>
                 /\ LoopContinues(r)

\* C6 witness: the loop is alive after an inbound Response or Update was
\* rejected, with a player connected and a game slot created
C6_Witness ==
    /\ last.ret = "Err"
    /\ last.msg = "invalid packet - server-only"
    /\ alive
    /\ Len(server_state.players) >= 1
    /\ Len(server_state.game_slots) >= 1
(* ------------------------------- C7 ------------------------------------ *)

\* the places <<slot index, position>> of the member lists that hold id
Memberships(id) ==
    LET slots == server_state.game_slots
        places == UNION {{<<g, j>> : j \in 1..Len(slots[g].player_ids)} : g \in 1..Len(slots)}
    IN  {x \in places : slots[x[1]].player_ids[x[2]] = id}

\* C7: a player belongs to at most one game slot at a time: each player id
\* occurs in the member list of at most one game slot, and at most once in it.
C7_AtMostOneSlot ==
    \A i \in 1..Len(server_state.players) :
        Cardinality(Memberships(server_state.players[i].player_id)) <= 1

(* ------------------------------- C8 ------------------------------------ *)

\* C8: game-slot names are unique: no two entries of game_slots have the
\* same name.
C8_UniqueSlotNames ==
    \A i, j \in 1..Len(server_state.game_slots) :
        i # j => server_state.game_slots[i].name # server_state.game_slots[j].name

(* ------------------------------- C9 ------------------------------------ *)

\* the requests of the players: a cookie that is a key of player_map
FromPlayer(packet) ==
    packet.kind = "Request" /\ packet.cookie # <<>> /\ packet.cookie[1] \in KnownCookies

\* the index in players of the player the request is attributed to
Caller(packet) == MapGet(server_state.player_map, packet.cookie[1])[1] + 1

\* C9: NewGameSlot(name) returns BadRequest and creates no slot when name has
\* more than 16 characters, and otherwise returns OK and appends exactly one
\* slot with that name, no members, not running and an empty pending-message
\* queue, the caller's slot membership being unchanged.
C9_NewGameSlotByCharacters ==
    \A addr \in Addrs, packet \in RequestsOf({"NewGameSlot"}) : \A fresh \in Draws(packet) :
        FromPlayer(packet)
        => LET r == DecodePacket(server_state, addr, packet, fresh)
               name == packet.action.arg
               slots == server_state.game_slots
               k == Caller(packet)
           IN  /\ r.ret = "Ok"
               /\ r.st.players[k].game_info = server_state.players[k].game_info
               /\ IF CharCount(name) > MAX_GAME_SLOT_NAME
                  THEN /\ r.response[1].code.tag = "BadRequest"
                       /\ r.st.game_slots = slots
                  ELSE /\ r.response[1].code.tag = "OK"
                       /\ Len(r.st.game_slots) = Len(slots) + 1
                       /\ SubSeq(r.st.game_slots, 1, Len(slots)) = slots
                       /\ r.st.game_slots[Len(slots) + 1].name = name
                       /\ r.st.game_slots[Len(slots) + 1].player_ids = <<>>
                       /\ r.st.game_slots[Len(slots) + 1].game_running = FALSE
                       /\ r.st.game_slots[Len(slots) + 1].pending_messages = <<>>

(* ------------------------------- C10 ----------------------------------- *)

C11_JoinGameSlot ==
    \A addr \in Addrs, packet \in RequestsOf({"JoinGameSlot"}) : \A fresh \in Draws(packet) :
        FromPlayer(packet)
        => LET r == DecodePacket(server_state, addr, packet, fresh)
               slots == server_state.game_slots
               k == Caller(packet)
               caller == server_state.players[k]
           IN  /\ r.ret = "Ok"
               /\ Len(r.st.game_slots) = Len(slots)
               /\ IF \A g \in 1..Len(slots) : slots[g].name # packet.action.arg
                  THEN /\ r.response[1].code.tag = "BadRequest"
                       /\ r.st.game_slots = slots
                       /\ r.st.players[k].game_info = caller.game_info
                  ELSE /\ r.response[1].code.tag = "OK"
                       /\ \E g \in 1..Len(slots) :
                             /\ slots[g].name = packet.action.arg
                             /\ r.st.game_slots[g] =
                                   [slots[g] EXCEPT !.player_ids =
                                       slots[g].player_ids \o <<caller.player_id>>]
                             /\ \A h \in 1..Len(slots) : h # g => r.st.game_slots[h] = slots[h]
                             /\ r.st.players[k].game_info = <<slots[g].game_slot_id>>

\* C11 witness: a JoinGameSlot was answered OK, the caller is a member of a
\* slot and its membership names that slot
C11_Witness ==
    /\ last.ret = "Ok"
    /\ last.dispatched = <<"JoinGameSlot">>
    /\ last.response[1].code.tag = "OK"
    /\ \E g \in 1..Len(server_state.game_slots) :
          /\ last.player[1] \in Range(server_state.game_slots[g].player_ids)
          /\ server_state.players[last.player[1] + 1].game_info =
                <<server_state.game_slots[g].game_slot_id>>

(* ------------------------------- C12 ----------------------------------- *)

\* C12: player ids are dense, append-only and never reused: the player at
\* index i of players (counting from 0) has id i, next_player_id is the
\* number of players, and every id stored in player_map is an index of
\* players.
C12_DensePlayerIds ==
    LET ps == server_state.players
    IN  /\ \A i \in 1..Len(ps) : ps[i].player_id = i - 1
        /\ server_state.next_player_id = Len(ps)
        /\ \A e \in server_state.player_map : e[2] >= 0 /\ e[2] < Len(ps)

\* C12 witness: two Connects succeeded and the second player, with id 1, was
\* answered a request that looks it up by index
C12_Witness ==
    /\ Len(server_state.players) = 2
    /\ server_state.players[2].player_id = 1
    /\ last.ret = "Ok"
    /\ last.player = <<1>>
    /\ last.dispatched # <<>>
(* ------------------------------- C13 ----------------------------------- *)

\* source addresses a datagram can come from: the one the players connected
\* from and another one
ProbeAddrs == Addrs \cup {"10.0.0.2:6000"}

\* C13: a Request event hands exactly one item to the outbound channel when
\* decode_packet succeeds, the response it returned addressed to the
\* datagram's source address, and none when decode_packet fails; a tick
\* hands none. The events handled come from the address of Addrs; the same
\* holds of a datagram that comes from another address.
C13_OneResponsePerRequest ==
    /\ last.event = "tick" => last.sent = <<>>
    /\ last.event = "request" /\ last.ret # "Ok" => last.sent = <<>>
    /\ last.event = "request" /\ last.ret = "Ok" =>
          /\ Len(last.response) = 1
          /\ Len(last.sent) = 2
          /\ last.sent[1] \in Addrs
          /\ last.sent[2] = last.response[1]
    /\ \A addr \in ProbeAddrs \ Addrs, packet \in Packets : \A fresh \in Draws(packet) :
          \A r \in {DecodePacket(server_state, addr, packet, fresh)} :
              \A out \in {Outgoing(addr, r)} :
                  IF r.ret = "Ok"
                  THEN Len(r.response) = 1 /\ out = <<addr, r.response[1]>>
                  ELSE out = <<>>

\* C13 witness: a player that connected from one address was answered, and a
\* request with its cookie can come from another address
C13_Witness ==
    /\ last.event = "request"
    /\ last.ret = "Ok"
    /\ last.dispatched # <<>>
    /\ last.sent # <<>>
    /\ \E addr \in ProbeAddrs :
          addr # server_state.players[last.player[1] + 1].addr

(* ------------------------------- C14 ----------------------------------- *)

\* C14: LeaveGameSlot, Disconnect and KeepAlive from a known cookie raise
\* the not-implemented condition: decode_packet returns no Response, and
\* none of them is answered while the state stays as it was.
C14_NotImplemented ==
    \A addr \in Addrs,
       packet \in RequestsOf({"LeaveGameSlot", "Disconnect", "KeepAlive"}) :
        FromPlayer(packet)
        => LET r == DecodePacket(server_state, addr, packet, ForgedCookie)
           IN  /\ r.ret = "Panic"
               /\ r.response = <<>>
               /\ r.dispatched = <<packet.action.tag>>
               /\ Outgoing(addr, r) = <<>>
               /\ ~LoopContinues(r)

\* C14 witness: one of the three requests came from a connected player and
\* raised the condition
C14_Witness ==
    /\ last.ret = "Panic"
    /\ last.dispatched # <<>>
    /\ last.dispatched[1] \in {"LeaveGameSlot", "Disconnect", "KeepAlive"}
    /\ last.sent = <<>>
    /\ ~alive

(* ------------------------------- C15 ----------------------------------- *)

\* C15: for no inbound datagram and no prior state does decode_packet call
\* process_request_action with the action Connect or None.
C15_FatalBranchesUnreachable ==
    \A addr \in Addrs, packet \in Packets : \A fresh \in Draws(packet) :
        LET r == DecodePacket(server_state, addr, packet, fresh)
        IN  r.dispatched \notin {<<"Connect">>, <<"None">>}
(* ------------------------------- C16 ----------------------------------- *)

\* the players that are in no slot
Unassigned(st) == {i \in 1..Len(st.players) : st.players[i].game_info = <<>>}

\* C16: initiate_player_session does nothing when the number of players in
\* no slot is odd; when that number is 2n it creates exactly n slots, after
\* which every one of those players is still in the player list and is
\* assigned to a slot.
C16_PairsAllUnassigned ==
    \A fresh \in Cookies :
        LET st == server_state
            r == initiate_player_session(st, fresh)
            u == Cardinality(Unassigned(st))
        IN  /\ ~r.panic
            /\ IF u % 2 = 1
               THEN r.st = st
               ELSE /\ Len(r.st.game_slots) = Len(st.game_slots) + (u \div 2)
                    /\ \A i \in Unassigned(st) :
                          \E j \in 1..Len(r.st.players) :
                              /\ r.st.players[j].player_id = st.players[i].player_id
                              /\ r.st.players[j].game_info # <<>>
(* ------------------------------- C17 ----------------------------------- *)

\* C17: every tick runs the pairing policy once, so after a tick no even,
\* positive number of connected players is left in no slot: two connected
\* players in no slot are paired by the next tick.
C17_PairedByNextTick ==
    last.event = "tick"
    => LET u == Cardinality(Unassigned(server_state))
       IN  u = 0 \/ u % 2 = 1

(* ------------------------------- C18 ----------------------------------- *)

\* C18: a tick adds exactly one to the tick counter and leaves players,
\* player_map, game_slots and every other field as they were; a Request
\* never changes the tick counter. The counter thus equals the number of
\* ticks handled.
C18_TickCounter ==
    [][ /\ last'.event = "tick" =>
              server_state' = [server_state EXCEPT !.tick = @ + 1]
        /\ last'.event = "request" => server_state'.tick = server_state.tick
      ]_vars

\* C18 witness: a tick was handled while players and slots exist
C18_Witness ==
    /\ last.event = "tick"
    /\ server_state.tick = 1
    /\ Len(server_state.players) > 0
    /\ Len(server_state.game_slots) > 0
    /\ server_state.player_map # {}

(* ------------------------------- C19 ----------------------------------- *)

\* C19: ListPlayers returns PlayerList with the names of all current
\* players in list order; ListGameSlots returns GameSlotList with one
\* (name, member count, running flag) triple per slot in list order; both
\* change nothing of the server state but the caller's next_resp_seq.
C19_ListsAreReadOnly ==
    \A addr \in Addrs, packet \in RequestsOf({"ListPlayers", "ListGameSlots"}) :
        FromPlayer(packet)
        => LET r == DecodePacket(server_state, addr, packet, ForgedCookie)
               ps == server_state.players
               slots == server_state.game_slots
               k == Caller(packet)
               code == r.response[1].code
           IN  /\ r.ret = "Ok"
               /\ r.st = [server_state EXCEPT !.players[k].next_resp_seq = @ + 1]
               /\ IF packet.action.tag = "ListPlayers"
                  THEN /\ code.tag = "PlayerList"
                       /\ Len(code.payload) = Len(ps)
                       /\ \A i \in 1..Len(ps) : code.payload[i] = ps[i].player_name
                  ELSE /\ code.tag = "GameSlotList"
                       /\ Len(code.payload) = Len(slots)
                       /\ \A g \in 1..Len(slots) :
                             code.payload[g] = <<slots[g].name,
                                                 Len(slots[g].player_ids),
                                                 slots[g].game_running>>

\* C19 witness: ListPlayers was answered with the names of two players
C19_Witness ==
    /\ last.ret = "Ok"
    /\ last.dispatched = <<"ListPlayers">>
    /\ last.response[1].code.tag = "PlayerList"
    /\ Len(last.response[1].code.payload) = 2
    /\ Len(server_state.players) = 2
(* ------------------------------- C20 ----------------------------------- *)

\* C20: every Response the server hands to the outbound channel has an
\* encoded size of at most 1472 bytes, whatever the number of players and
\* slots; the size is at least the bytes of the names the Response lists.
C20_ResponseWithinMtu ==
    last.sent # <<>> => MinEncodedSize(last.sent[2]) <= UDP_MTU_SIZE
(* ------------------------------- C21 ----------------------------------- *)

\* the state of the layer apart from the outputs of its last step
SameLayer(t1, t2) == t1.endpoints = t2.endpoints /\ t1.queue = t2.queue

\* C21: NewEndpoint(e) fails with EndpointExists exactly when e is
\* registered, and otherwise registers e and is accepted; DropEndpoint(e)
\* fails with EndpointNotFound exactly when e is not registered, and
\* otherwise removes e with all its queued packets; a failed command and the
\* other endpoints' state change nothing.
C21_EndpointLifecycle ==
    \A e \in Endpoints :
        /\ \A timeout \in Timeouts :
              LET r == NewEndpoint(transport, e, timeout)
              IN  /\ r.rsp = EndpointError("EndpointExists") <=> Registered(transport, e)
                  /\ IF Registered(transport, e)
                     THEN SameLayer(r, transport)
                     ELSE /\ r.rsp = Accepted
                          /\ Registered(r, e)
                          /\ r.endpoints[e][1].timeout = timeout
                  /\ \A f \in Endpoints \ {e} :
                        r.endpoints[f] = transport.endpoints[f] /\ r.queue[f] = transport.queue[f]
        /\ LET d == DropEndpoint(transport, e)
           IN  /\ d.rsp = EndpointError("EndpointNotFound") <=> ~Registered(transport, e)
               /\ IF ~Registered(transport, e)
                  THEN SameLayer(d, transport)
                  ELSE d.rsp = Accepted /\ ~Registered(d, e) /\ d.queue[e] = <<>>
               /\ \A f \in Endpoints \ {e} :
                     d.endpoints[f] = transport.endpoints[f] /\ d.queue[f] = transport.queue[f]

\* C21 witness: one endpoint is registered and has queued packets, the other
\* is not registered
C21_Witness ==
    \E e, f \in Endpoints :
        /\ Registered(transport, e)
        /\ Len(transport.queue[e]) > 0
        /\ ~Registered(transport, f)

(* ------------------------------- C22 ----------------------------------- *)

\* the lists of settings and packets of the SendPackets commands to e,
\* the tids being unique as the caller keeps them
Calls(e) == {c \in InfoLists \X PacketLists : UniqueTids(transport, e, c[1])}

\* C22: a SendPackets command with as many settings as packets, one of which
\* is over 1472 bytes, fails with ExceedsMtu naming that packet's tid, and
\* no packet of the command is queued: every queue is as before the command.
C22_ExceedsMtuAllOrNothing ==
    \A e \in Endpoints : \A c \in Calls(e) :
        LET packet_infos == c[1]
            packets == c[2]
            over == {i \in 1..Len(packets) : packets[i] > UDP_MTU_SIZE}
        IN  Len(packet_infos) = Len(packets) /\ Cardinality(over) = 1
            => LET r == SendPackets(transport, e, packet_infos, packets)
               IN  /\ r.rsp.tag = "ExceedsMtu"
                   /\ \A i \in over : r.rsp.tid = packet_infos[i].tid
                   /\ SameLayer(r, transport)
                   /\ r.transmitted = {}

\* C22 witness: a registered endpoint has room for the two packets of a
\* command of which the second is over the ceiling
C22_Witness ==
    \E e \in Endpoints :
        /\ Registered(transport, e)
        /\ Len(transport.queue[e]) + 2 <= QueueCapacity
        /\ \E c \in Calls(e) :
              /\ Len(c[1]) = 2
              /\ Len(c[2]) = 2
              /\ c[2][1] <= UDP_MTU_SIZE
              /\ c[2][2] > UDP_MTU_SIZE

(* ------------------------------- C23 ----------------------------------- *)

\* C23: a SendPackets command whose settings and packets differ in number
\* fails with SendPacketsLengthMismatch and leaves the queue of its endpoint
\* and of every other endpoint, and the registrations, unchanged.
C23_LengthMismatch ==
    \A e \in Endpoints : \A c \in Calls(e) :
        Len(c[1]) # Len(c[2])
        => LET r == SendPackets(transport, e, c[1], c[2])
           IN  /\ r.rsp = Rsp("SendPacketsLengthMismatch", "", 0)
               /\ SameLayer(r, transport)
               /\ r.transmitted = {}

\* C23 witness: a registered endpoint with a queued packet and room for one
\* more, and a command to it with two settings and one packet that fits
C23_Witness ==
    \E e \in Endpoints :
        /\ Registered(transport, e)
        /\ Len(transport.queue[e]) = 1
        /\ \E c \in Calls(e) :
              Len(c[1]) = 1 /\ Len(c[2]) = 2 /\ c[2][1] <= UDP_MTU_SIZE
(* ------------------------------- C24 ----------------------------------- *)

\* the entry of e with the tid
EntryOf(t, e, tid) == CHOOSE x \in Range(t.queue[e]) : x.tid = tid

\* C24: a tick transmits a queued entry again exactly when its own retry
\* interval has elapsed since its last transmission, whatever the other
\* entries of the endpoint, and keeps it queued; only queued entries are
\* transmitted; an entry that is acknowledged, dropped with DropPacket,
\* cancelled with its queue or dropped with its endpoint is no longer
\* queued, and the other entries of the endpoint are as before.
C24_RetryUntilRemoved ==
    LET r == TransportTick(transport)
    IN  /\ r.transmitted \subseteq
              {p \in Endpoints \X Tids : p[2] \in QueuedTids(transport, p[1])}
        /\ \A e \in Endpoints :
              /\ QueuedTids(r, e) = QueuedTids(transport, e)
              /\ Len(r.queue[e]) = Len(transport.queue[e])
              /\ QueuedTids(CancelTransmitQueue(transport, e), e) = {}
              /\ QueuedTids(DropEndpoint(transport, e), e) = {}
              /\ \A tid \in QueuedTids(transport, e) :
                    LET x == EntryOf(transport, e, tid)
                        y == EntryOf(r, e, tid)
                        rest == Range(transport.queue[e]) \ {x}
                    IN  /\ x.elapsed < x.retry_interval
                        /\ IF x.elapsed + 1 = x.retry_interval
                           THEN <<e, tid>> \in r.transmitted /\ y.elapsed = 0
                           ELSE <<e, tid>> \notin r.transmitted /\ y.elapsed = x.elapsed + 1
                        /\ y.retry_interval = x.retry_interval
                        /\ Range(DropPacket(transport, e, tid).queue[e]) = rest
                        /\ Range(PacketReceived(transport, e, {tid}).queue[e]) = rest

\* C24 witness: an endpoint has two queued entries with different retry
\* intervals, and a tick has passed since the longer one was transmitted
C24_Witness ==
    \E e \in Endpoints :
        \E x, y \in Range(transport.queue[e]) :
            /\ x.retry_interval < y.retry_interval
            /\ y.elapsed = 1

(* ------------------------------- C25 ----------------------------------- *)

\* C25: a tick gives the EndpointTimeout notice of a registered endpoint
\* exactly when the endpoint has then been idle for its timeout and no
\* notice was given since its last packet, so that one notice fires however
\* long the endpoint stays idle; a tick leaves every registered endpoint
\* registered with its queue, and gives no notice for an unregistered one.
C25_TimeoutOnce ==
    LET r == TransportTick(transport)
    IN  \A e \in Endpoints :
            IF Registered(transport, e)
            THEN LET ep == transport.endpoints[e][1]
                 IN  /\ ep.fired <= 1
                     /\ ep.fired = 1 <=> ep.idle >= ep.timeout
                     /\ Notice("EndpointTimeout", e) \in r.notices
                           <=> (ep.idle + 1 >= ep.timeout /\ ep.fired = 0)
                     /\ Registered(r, e)
                     /\ Len(r.queue[e]) = Len(transport.queue[e])
            ELSE /\ Notice("EndpointTimeout", e) \notin r.notices
                 /\ ~Registered(r, e)

\* C25 witness: an endpoint stayed idle past its timeout, through a tick
\* after the one of the notice, and is registered
C25_Witness ==
    \E e \in Endpoints :
        /\ Registered(transport, e)
        /\ transport.endpoints[e][1].idle > transport.endpoints[e][1].timeout
        /\ transport.endpoints[e][1].fired = 1

(* ------------------------------- C26 ----------------------------------- *)

\* C26: CancelTransmitQueue(e) on a registered endpoint is accepted and
\* empties the queue of e; e stays registered, so that NewEndpoint(e) fails
\* with EndpointExists, and the registrations and the queues of the other
\* endpoints are unchanged.
C26_CancelKeepsEndpoint ==
    \A e \in Endpoints :
        Registered(transport, e)
        => LET r == CancelTransmitQueue(transport, e)
           IN  /\ r.rsp = Accepted
               /\ r.queue[e] = <<>>
               /\ r.endpoints = transport.endpoints
               /\ \A f \in Endpoints \ {e} : r.queue[f] = transport.queue[f]
               /\ \A timeout \in Timeouts :
                     NewEndpoint(Settled(r), e, timeout).rsp = EndpointError("EndpointExists")

\* C26 witness: two registered endpoints, one with two queued entries and
\* the other with one
C26_Witness ==
    \E e, f \in Endpoints :
        /\ e # f
        /\ Registered(transport, e)
        /\ Registered(transport, f)
        /\ Len(transport.queue[e]) = 2
        /\ Len(transport.queue[f]) = 1
(* ------------------------------- C27 ----------------------------------- *)

\* C27: for every inbound packet and every reachable ServerState
\* decode_packet returns Ok or an error, and the event loop goes on.
C27_DecodeAlwaysReturns ==
    /\ alive
    /\ \A addr \in Addrs, packet \in Packets : \A fresh \in Draws(packet) :
          DecodePacket(server_state, addr, packet, fresh).ret \in {"Ok", "Err"}

(* ------------------------------- C28 ----------------------------------- *)

\* everything handed to the outbound channel so far, in the order in which
\* the socket gets it
Outbound == wire \o chan

\* C28: the items reach the socket in the order in which the event loop
\* handed them to the channel (a step adds at most the item it sent at the
\* end of what is sent or waiting, and the socket's part only grows); the
\* event loop handles a tick while items wait in the channel; and every item
\* handed to the channel reaches the socket unless the process ends.
C28_OrderedDelivery ==
    /\ [][ /\ \/ Outbound' = Outbound
              \/ /\ last'.sent # <<>>
                 /\ Outbound' = Append(Outbound, last'.sent)
           /\ Len(wire') >= Len(wire)
           /\ SubSeq(wire', 1, Len(wire)) = wire ]_vars
    /\ [](alive /\ chan # <<>> /\ server_state.tick < MaxTick => ENABLED TickEvent)
    /\ \A n \in 1..MaxSent : (Len(Outbound) >= n) ~> (Len(wire) >= n \/ ~alive)

\* C28 witness: two responses wait in the channel, the second enqueued
\* before the first was sent, and one reached the socket before them
C28_Witness ==
    /\ Len(chan) = 2
    /\ Len(wire) = 1
    /\ alive
(* ------------------------------- C29 ----------------------------------- *)

\* values of the sequence and response_ack fields of the probed requests
ProbeSeqs == {0, 7}

\* the request with other sequence and response_ack fields
Variants(packet) ==
    {[packet EXCEPT !.sequence = s, !.response_ack = a] : s \in ProbeSeqs, a \in ProbeSeqs}

\* the Request datagrams probed
Requests == {p \in Packets : p.kind = "Request"}

\* the state without the players' source addresses
WithoutAddrs(st) ==
    [st EXCEPT !.players = [i \in 1..Len(st.players) |-> [st.players[i] EXCEPT !.addr = ""]]]

\* the outcome of decode_packet: return value, response and state
Outcome(r) == <<r.ret, r.err, r.response, r.st>>

\* the slots that hold two new entries of pending_messages, both the text
SlotsWithTwoMore(st0, st2, text) ==
    {g \in 1..Len(st0.game_slots) :
        LET before == st0.game_slots[g].pending_messages
            after == st2.game_slots[g].pending_messages
        IN  /\ Len(after) = Len(before) + 2
            /\ after[Len(after)][2] = text
            /\ after[Len(after) - 1][2] = text}

\* the second delivery of an answered request is answered with the next
\* sequence number, and a chat message or a slot is added by each delivery
AppliedTwice(packet, r1, r2) ==
    /\ r2.ret = "Ok"
    /\ r2.player = r1.player
    /\ r2.response[1].sequence = r1.response[1].sequence + 1
    /\ r2.st.players[r1.player[1] + 1].next_resp_seq
          = server_state.players[r1.player[1] + 1].next_resp_seq + 2
    /\ (packet.action.tag = "ChatMessage" /\ r1.response[1].code.tag = "OK"
          => /\ r2.response[1].code.tag = "OK"
             /\ SlotsWithTwoMore(server_state, r2.st, packet.action.arg) # {})
    /\ (packet.action.tag = "NewGameSlot" /\ r1.response[1].code.tag = "OK"
          => /\ r2.response[1].code.tag = "OK"
             /\ Len(r2.st.game_slots) = Len(server_state.game_slots) + 2
             /\ r2.st.game_slots[Len(r2.st.game_slots)].name = packet.action.arg
             /\ r2.st.game_slots[Len(r2.st.game_slots) - 1].name = packet.action.arg)

\* C29 as stated: the response and the state after decode_packet are the
\* same whatever the sequence, the response_ack and the source address of a
\* Request, and a Request that is answered is, delivered again, answered
\* with the next sequence number after its action was applied again.
C29_IndependentOfHeaderAndSource ==
    \A packet \in Requests, a1 \in Addrs :
      \A fresh \in Draws(packet) :
        \A r1 \in {DecodePacket(server_state, a1, packet, fresh)} :
          /\ \A other \in Variants(packet), a2 \in ProbeAddrs :
                Outcome(DecodePacket(server_state, a2, other, fresh)) = Outcome(r1)
          /\ r1.ret = "Ok" =>
                \A again \in Draws(packet) :
                    AppliedTwice(packet, r1, DecodePacket(r1.st, a1, packet, again))

\* C29 amended: the response and the state do not depend on sequence and
\* response_ack, and on the source address only in that a successful
\* Connect stores it as the new player's addr; a Request other than
\* Connect that carries a player's cookie and is answered is, delivered
\* again, answered with the next sequence number after its action was
\* applied again (two chat messages appended, two slots created).
C29_IndependentOfHeader ==
    \A packet \in Requests, a1 \in Addrs :
      \A fresh \in Draws(packet) :
        \A r1 \in {DecodePacket(server_state, a1, packet, fresh)} :
          /\ \A other \in Variants(packet) :
                Outcome(DecodePacket(server_state, a1, other, fresh)) = Outcome(r1)
          /\ \A a2 \in ProbeAddrs \ {a1} :
               \A r2 \in {DecodePacket(server_state, a2, packet, fresh)} :
                 /\ <<r2.ret, r2.err, r2.response>> = <<r1.ret, r1.err, r1.response>>
                 /\ WithoutAddrs(r2.st) = WithoutAddrs(r1.st)
                 /\ IF packet.action.tag = "Connect" /\ r1.ret = "Ok" /\ r1.player # <<>>
                    THEN /\ Len(r2.st.players) = Len(server_state.players) + 1
                         /\ r2.st.players[Len(r2.st.players)].addr = a2
                         /\ r1.st.players[Len(r1.st.players)].addr = a1
                         /\ SubSeq(r2.st.players, 1, Len(server_state.players))
                               = server_state.players
                    ELSE r2.st = r1.st
          /\ r1.dispatched # <<>> /\ r1.ret = "Ok" =>
                \A again \in Draws(packet) :
                    AppliedTwice(packet, r1, DecodePacket(r1.st, a1, packet, again))

\* C29 witness: the same NewGameSlot request was answered twice: two slots
\* of one name, and the player's third sequence number consumed
C29_Witness ==
    /\ alive
    /\ last.dispatched = <<"NewGameSlot">>
    /\ Len(server_state.game_slots) = 2
    /\ server_state.game_slots[1].name = server_state.game_slots[2].name
    /\ Len(server_state.players) = 1
    /\ issued[1] = <<0, 1, 2>>
(* ------------------------------- C30 ----------------------------------- *)

\* C30: no two entries of players have the same player_name, and no step
\* removes a player or changes the player_name, player_id or cookie of a
\* player that exists.
C30_NamesUniqueAndFixed ==
    /\ [](\A i, j \in 1..Len(server_state.players) :
             i # j => server_state.players[i].player_name
                         # server_state.players[j].player_name)
    /\ [][ /\ Len(server_state'.players) >= Len(server_state.players)
           /\ \A i \in 1..Len(server_state.players) :
                 /\ server_state'.players[i].player_name
                       = server_state.players[i].player_name
                 /\ server_state'.players[i].player_id
                       = server_state.players[i].player_id
                 /\ server_state'.players[i].cookie
                       = server_state.players[i].cookie ]_vars

\* C30 witness: two players with different names exist, one of them has
\* been answered since, and the last Connect was refused for its name
C30_Witness ==
    /\ Len(server_state.players) = 2
    /\ server_state.players[1].player_name # server_state.players[2].player_name
    /\ server_state.players[1].next_resp_seq > 1
    /\ last.ret = "Ok"
    /\ last.player = <<>>
    /\ last.response[1].code.tag = "Unauthorized"
(* ------------------------------- C31 ----------------------------------- *)

\* the slots that carry the id and list the player as a member
SlotsOfMember(st, slot_id, player_id) ==
    {g \in 1..Len(st.game_slots) :
        /\ st.game_slots[g].game_slot_id = slot_id
        /\ \E k \in 1..Len(st.game_slots[g].player_ids) :
              st.game_slots[g].player_ids[k] = player_id}

\* C31: whenever a player's game_info names a slot id, a game slot with
\* that id exists and lists the player as a member, and a ChatMessage of a
\* player with a membership is answered OK, never by the BadRequest of the
\* branch where no slot has the id.
C31_MembershipHasSlot ==
    /\ \A i \in 1..Len(server_state.players) :
          server_state.players[i].game_info # <<>> =>
              SlotsOfMember(server_state, server_state.players[i].game_info[1],
                            server_state.players[i].player_id) # {}
    /\ \A addr \in Addrs, packet \in RequestsOf({"ChatMessage"}) :
          (/\ alive
           /\ FromPlayer(packet)
           /\ server_state.players[Caller(packet)].game_info # <<>>) =>
              \A r \in {DecodePacket(server_state, addr, packet, ForgedCookie)} :
                  /\ r.ret = "Ok"
                  /\ r.response[1].code = Code("OK", <<>>)

\* C31 witness: a player that joined a slot sent a ChatMessage, which was
\* answered OK and is pending in the slot the player's game_info names
C31_Witness ==
    /\ alive
    /\ last.dispatched = <<"ChatMessage">>
    /\ last.response[1].code.tag = "OK"
    /\ \E i \in 1..Len(server_state.players) :
          /\ server_state.players[i].game_info # <<>>
          /\ \E g \in SlotsOfMember(server_state, server_state.players[i].game_info[1],
                                    server_state.players[i].player_id) :
                server_state.game_slots[g].pending_messages # <<>>
(* ------------------------------- C32 ----------------------------------- *)

\* C32: the generation changes only in an update made in stage Run with the
\* first generation drawn and running true, and then by one; the stage never
\* goes from Run to Intro; a key press in stage Intro leads to stage Run and
\* leaves running as it is; running changes only by a key press of Space
\* that is no repeat, made in stage Run.
C32_ClientStages ==
    [][ /\ client'.uni.gen # client.uni.gen =>
              /\ client'.event.name = "update"
              /\ client.stage = Run
              /\ client.first_gen_was_drawn
              /\ client.running
              /\ client'.uni.gen = client.uni.gen + 1
        /\ client.stage = Run => client'.stage = Run
        /\ client'.event.name = "key_down" /\ client.stage.tag = "Intro" =>
              /\ client'.stage = Run
              /\ client'.running = client.running
        /\ client'.running # client.running =>
              /\ client'.event = ClientEvent("key_down", <<<<"Space">>, FALSE>>)
              /\ client.stage = Run
      ]_vars

\* C32 witness: the intro was left, the universe was drawn and advanced,
\* and the Space key has paused it
C32_Witness ==
    /\ client.stage = Run
    /\ client.first_gen_was_drawn
    /\ client.uni.gen > 1
    /\ ~client.running
    /\ client.event = ClientEvent("key_down", <<<<"Space">>, FALSE>>)

====
